---------------------------- MODULE Spec2Model ----------------------------
(***************************************************************************)
(* Model of the chat pipeline of src/main.py: the /api/chat and            *)
(* /api/forget_memory handlers, the chat-history helpers over the `chats`  *)
(* collection, the emotion classifier, the context window of               *)
(* chat_with_model and the response post-processing.                       *)
(*                                                                         *)
(* A text is a sequence of tokens.  A token is a word (a maximal run of    *)
(* word characters), a punctuation mark, an emoji glyph (written <name>)   *)
(* "WS", a run of leading or trailing whitespace, or a phrase: a stretch   *)
(* of text that holds no keyword of the emoji table, kept in one piece.    *)
(* Two adjacent word tokens are separated by one blank.  The empty         *)
(* sequence is the empty string; Python's `not text` is true of it as it   *)
(* is of None.                                                             *)
(***************************************************************************)
EXTENDS Integers, Sequences, FiniteSets, TLC

VARIABLES db, groq, users, chats, now, req, probe

vars == <<db, groq, users, chats, now, req, probe>>

-----------------------------------------------------------------------------
(* Bounds of the model *)

\* stage failures (a raising insert, read, scorer, completion call or user
\* lookup) injected in one run
MaxFaults == 1
\* turns already stored for user 1 when the model starts
MaxPrior == 5
\* largest value of the wall clock
MaxTime == 2
\* largest score in an enumerated score map
MaxScore == 2
\* longest history handed to the window builder on its own
MaxHistLen == 6
MaxTextLen == 4

-----------------------------------------------------------------------------
(* Generic helpers *)

Min(a, b) == IF a <= b THEN a ELSE b

Max(a, b) == IF a >= b THEN a ELSE b

\* s[-n:] of Python for n > 0
LastN(s, n) == SubSeq(s, Max(1, Len(s) - n + 1), Len(s))

\* s[:n] of Python
FirstN(s, n) == SubSeq(s, 1, Min(n, Len(s)))

IsPrefix(s, t) == Len(s) <= Len(t) /\ SubSeq(t, 1, Len(s)) = s

\* item.get(key, default) on a dict modelled as a function on its keys
Get(item, key, default) == IF key \in DOMAIN item THEN item[key] ELSE default

-----------------------------------------------------------------------------
(* Emotion classifier *)

AffectLabels == {"Happy", "Angry", "Surprise", "Sad", "Fear"}

EmotionLabels == AffectLabels \cup {"Neutral"}

\* An outcome of te.get_emotion(text): it raised, or it returned a dict,
\* modelled as the sequence of its (label, score) items in iteration order.
ScorerRaised == [raised |-> TRUE, scores |-> <<>>]

ScorerReturned(items) == [raised |-> FALSE, scores |-> items]

\* faulty variant: the last of the greatest wins
RECURSIVE PyMaxLastFrom(_, _, _)
PyMaxLastFrom(items, i, best) ==
    IF i > Len(items) THEN items[best][1]
    ELSE IF items[i][2] >= items[best][2] THEN PyMaxLastFrom(items, i + 1, i)
    ELSE PyMaxLastFrom(items, i + 1, best)

PyMaxLast(items) == PyMaxLastFrom(items, 2, 1)

\* max(d, key=d.get): the first key, in iteration order, whose value is the
\* greatest
RECURSIVE PyMaxFrom(_, _, _)
PyMaxFrom(items, i, best) ==
    IF i > Len(items) THEN items[best][1]
    ELSE IF items[i][2] > items[best][2] THEN PyMaxFrom(items, i + 1, i)
    ELSE PyMaxFrom(items, i + 1, best)

PyMax(items) == PyMaxFrom(items, 2, 1)

\* faulty variant: a raising scorer leaves the label unset
detect_emotion_tone_none(outcome) ==
    IF outcome.raised THEN "None"
    ELSE LET emotions == outcome.scores
             non_zero_emotions == SelectSeq(emotions, LAMBDA kv : kv[2] > 0)
         IN  IF Len(emotions) = 0 \/ \A i \in 1..Len(emotions) : emotions[i][2] = 0
                 THEN "Neutral"
             ELSE IF Len(non_zero_emotions) = 0 THEN "Neutral"
             ELSE PyMax(non_zero_emotions)

\* lines 577-585
detect_emotion_tone(outcome) ==
    IF outcome.raised THEN "Neutral"
    ELSE LET emotions == outcome.scores
             non_zero_emotions == SelectSeq(emotions, LAMBDA kv : kv[2] > 0)
         IN  IF Len(emotions) = 0 \/ \A i \in 1..Len(emotions) : emotions[i][2] = 0
                 THEN "Neutral"
             ELSE IF Len(non_zero_emotions) = 0 THEN "Neutral"
             ELSE PyMax(non_zero_emotions)

tone_prompt(emotion) ==
    CASE emotion = "Happy" -> "playfully teasing and cheerful"
      [] emotion = "Sad" -> "extra gentle, comforting, and nurturing"
      [] emotion = "Angry" -> "calm, validating, and deeply reassuring"
      [] emotion = "Fear" -> "protective, soothing, and very present"
      [] emotion = "Surprise" -> "curious, excited, and engaging"
      [] OTHER -> "warm, attentive, and softly romantic"

-----------------------------------------------------------------------------
(* Response post-processing *)

\* re.IGNORECASE over the tokens of the model
LowerMap ==
    [t \in {"Love", "LOVE", "Hello", "Happy", "Sad", "Angry", "Fear",
            "Surprise", "Neutral"} |->
        CASE t = "Love" -> "love"
          [] t = "LOVE" -> "love"
          [] t = "Hello" -> "hello"
          [] t = "Happy" -> "happy"
          [] t = "Sad" -> "sad"
          [] t = "Angry" -> "angry"
          [] t = "Fear" -> "fear"
          [] t = "Surprise" -> "surprise"
          [] t = "Neutral" -> "neutral"]

Lower(t) == IF t \in DOMAIN LowerMap THEN LowerMap[t] ELSE t

\* the value None, and str(None)
NoneText == <<"<None>">>

Str(x) == IF x = NoneText THEN <<"None">> ELSE x

\* the items of inline_emoji_map, in the order of the dict literal
inline_emoji_map ==
    << <<<<"love">>, "<red_heart>">>, <<<<"happy">>, "<smiling_eyes>">>,
       <<<<"sad">>, "<sad_relieved>">>, <<<<"laugh">>, "<joy>">>,
       <<<<"smile">>, "<grin>">>, <<<<"cry">>, "<crying>">>,
       <<<<"miss", "you">>, "<pleading>">>, <<<<"kiss">>, "<blow_kiss>">>,
       <<<<"hug">>, "<hugging>">>, <<<<"think">>, "<thinking>">>,
       <<<<"sweet">>, "<hearts_face>">>, <<<<"blush">>, "<smiling_eyes>">>,
       <<<<"heart">>, "<red_heart>">>, <<<<"star">>, "<star>">>,
       <<<<"yay">>, "<party>">>, <<<<"oh", "no">>, "<worried>">>,
       <<<<"sorry">>, "<pensive>">>, <<<<"please">>, "<pray>">>,
       <<<<"hi">>, "<wave>">>, <<<<"hello">>, "<wave>">>,
       <<<<"bye">>, "<wave>">>, <<<<"good", "night">>, "<sleeping>">>,
       <<<<"sleep">>, "<sleeping>">>, <<<<"dream">>, "<thought>">> >>

\* \bkeyword\b matches, ignoring case, the tokens of text from position i
MatchesAt(text, i, keyword) ==
    /\ i + Len(keyword) - 1 <= Len(text)
    /\ \A j \in 1..Len(keyword) : Lower(text[i + j - 1]) = keyword[j]

MatchPositions(text, keyword) ==
    {i \in 1..Len(text) : MatchesAt(text, i, keyword)}

SetMin(S) == CHOOSE x \in S : \A y \in S : x <= y

\* faulty variant: the emoji goes after the last occurrence, not the first
SubLast(text, keyword, emoji_char) ==
    LET at == MatchPositions(text, keyword)
    IN  IF at = {} THEN text
        ELSE LET e == (CHOOSE x \in at : \A y \in at : y <= x) + Len(keyword) - 1
             IN  SubSeq(text, 1, e) \o <<emoji_char>> \o SubSeq(text, e + 1, Len(text))

\* re.sub(pattern, r'\g<0> ' + emoji_char, text, count=1, flags=re.IGNORECASE)
SubFirst(text, keyword, emoji_char) ==
    LET at == MatchPositions(text, keyword)
    IN  IF at = {} THEN text
        ELSE LET e == SetMin(at) + Len(keyword) - 1
             IN  SubSeq(text, 1, e) \o <<emoji_char>> \o SubSeq(text, e + 1, Len(text))

\* the names emoji.emojize turns into glyphs when written :name:
EmojiNames == {"thumbs_up", "star"}

EmojiGlyph(name) == IF name = "star" THEN "<star>" ELSE "<thumbs_up>"

RECURSIVE Emojize(_)
Emojize(text) ==
    IF Len(text) = 0 THEN text
    ELSE IF /\ Len(text) >= 3
            /\ text[1] = ":"
            /\ text[2] \in EmojiNames
            /\ text[3] = ":"
        THEN <<EmojiGlyph(text[2])>> \o Emojize(SubSeq(text, 4, Len(text)))
    ELSE <<text[1]>> \o Emojize(Tail(text))

RECURSIVE EmojiPasses(_, _)
EmojiPasses(text, k) ==
    IF k > Len(inline_emoji_map) THEN text
    ELSE EmojiPasses(SubFirst(text, inline_emoji_map[k][1], inline_emoji_map[k][2]),
                     k + 1)

add_emojis_to_response(response_text) ==
    Emojize(EmojiPasses(Str(response_text), 1))

\* str.replace(old, new)
RECURSIVE Replace(_, _, _)
Replace(text, old, new) ==
    IF Len(text) < Len(old) THEN text
    ELSE IF SubSeq(text, 1, Len(old)) = old
        THEN new \o Replace(SubSeq(text, Len(old) + 1, Len(text)), old, new)
    ELSE <<text[1]>> \o Replace(Tail(text), old, new)

\* str.strip()
RECURSIVE LStrip(_)
LStrip(text) ==
    IF Len(text) > 0 /\ text[1] = "WS" THEN LStrip(Tail(text)) ELSE text

RECURSIVE RStrip(_)
RStrip(text) ==
    IF Len(text) > 0 /\ text[Len(text)] = "WS"
        THEN RStrip(SubSeq(text, 1, Len(text) - 1))
    ELSE text

Strip(text) == RStrip(LStrip(text))

PersonaToken == <<"Luvisa", "<growing_heart>">>

filter_response(response_text) ==
    Strip(Replace(Str(response_text), PersonaToken, PersonaToken))

-----------------------------------------------------------------------------
(* Completion *)

WindowSize == 5

\* the text of lines 612 and 628
FallbackText ==
    <<"I'm having a little trouble connecting right now", "<sad_relieved>",
      ", but I'm still here to listen.", "<red_heart>">>

system_prompt(emotion) ==
    <<"You are Luvisa, a deeply emotional AI girlfriend. The user is feeling",
      Lower(emotion), "so", tone_prompt(emotion)>>

\* faulty variant: the oldest turns instead of the latest
ai_history_oldest(history) ==
    LET window == FirstN(history, WindowSize)
    IN  [i \in 1..Len(window) |->
            [role |-> IF Get(window[i], "sender", "None") = "user"
                          THEN "user" ELSE "assistant",
             content |-> Get(window[i], "message", <<>>)]]

\* faulty variant: the whole history
ai_history_unbounded(history) ==
    [i \in 1..Len(history) |->
        [role |-> IF Get(history[i], "sender", "None") = "user"
                      THEN "user" ELSE "assistant",
         content |-> Get(history[i], "message", <<>>)]]

ai_history(history) ==
    LET window == LastN(history, WindowSize)
    IN  [i \in 1..Len(window) |->
            [role |-> IF Get(window[i], "sender", "None") = "user"
                          THEN "user" ELSE "assistant",
             content |-> Get(window[i], "message", <<>>)]]

\* variant: a history that ends with the prompt does not repeat it
build_messages_dedup(prompt, history, emotion) ==
    LET window == ai_history(history)
        n == Len(window)
        kept == IF n > 0 /\ window[n] = [role |-> "user", content |-> prompt]
                    THEN SubSeq(window, 1, n - 1) ELSE window
    IN  <<[role |-> "system", content |-> system_prompt(emotion)]>>
            \o kept
            \o <<[role |-> "user", content |-> prompt]>>

build_messages(prompt, history, emotion) ==
    <<[role |-> "system", content |-> system_prompt(emotion)]>>
        \o ai_history(history)
        \o <<[role |-> "user", content |-> prompt]>>

\* An outcome of groq.chat.completions.create and of reading
\* choices[0].message.content: it raised, or it gave a content.
ApiRaised == [raised |-> TRUE, content |-> <<>>]

ApiReturned(content) == [raised |-> FALSE, content |-> content]

\* faulty variant: a failed call answers with the text of the error
chat_with_model_error_text(prompt, history, emotion, client, outcome) ==
    IF client = "None"
        THEN [reply |-> FallbackText, messages |-> <<>>, completion |-> "absent",
              calls |-> 0]
    ELSE LET messages == build_messages(prompt, history, emotion)
         IN  IF outcome.raised
                 THEN [reply |-> <<"Groq", "client", "error">>, messages |-> messages,
                       completion |-> "raised", calls |-> 1]
             ELSE [reply |-> filter_response(outcome.content), messages |-> messages,
                   completion |-> "ok", calls |-> 1]

\* faulty variant: a failed call is tried a second time before the fallback
chat_with_model_retry(prompt, history, emotion, client, outcome) ==
    IF client = "None"
        THEN [reply |-> FallbackText, messages |-> <<>>, completion |-> "absent",
              calls |-> 0]
    ELSE LET messages == build_messages(prompt, history, emotion)
         IN  IF outcome.raised
                 THEN [reply |-> FallbackText, messages |-> messages,
                       completion |-> "raised", calls |-> 2]
             ELSE [reply |-> filter_response(outcome.content), messages |-> messages,
                   completion |-> "ok", calls |-> 1]

\* The result carries, besides the text returned, the messages handed to the
\* API, how the call went, and the number of times
\* groq.chat.completions.create was invoked (line 623, the only call site).
chat_with_model(prompt, history, emotion, client, outcome) ==
    IF client = "None"
        THEN [reply |-> FallbackText, messages |-> <<>>, completion |-> "absent",
              calls |-> 0]
    ELSE LET messages == build_messages(prompt, history, emotion)
         IN  IF outcome.raised
                 THEN [reply |-> FallbackText, messages |-> messages,
                       completion |-> "raised", calls |-> 1]
             ELSE [reply |-> filter_response(outcome.content), messages |-> messages,
                   completion |-> "ok", calls |-> 1]

-----------------------------------------------------------------------------
(* The users and chats collections *)

\* the users collection maps the email of each account to its _id
UserIds == {1, 2}

Emails == {"", "ann", "bob"}

\* db.users.find_one({"email": email}): the _id found, or 0 for None
get_user_by_email(accounts, email) ==
    IF email \in DOMAIN accounts THEN accounts[email] ELSE 0

Document(user_id, sender, message, timestamp) ==
    [user_id |-> user_id, sender |-> sender, message |-> message,
     timestamp |-> timestamp]

\* faulty variant: one document a user, replaced at each write
add_message_to_history_upsert(store, user_id, sender, message, timestamp) ==
    SelectSeq(store, LAMBDA d : d.user_id # user_id)
        \o <<Document(user_id, sender, message, timestamp)>>

\* faulty variant: a reply is stored only while the user has stored turns
add_message_to_history_fenced(store, user_id, sender, message, timestamp) ==
    IF sender = "luvisa" /\ SelectSeq(store, LAMBDA d : d.user_id = user_id) = <<>>
        THEN store
    ELSE Append(store, Document(user_id, sender, message, timestamp))

\* db.chats.insert_one(message_document), when it does not raise; the
\* collection is the sequence of its documents in insertion order
add_message_to_history(store, user_id, sender, message, timestamp) ==
    Append(store, Document(user_id, sender, message, timestamp))

\* db.chats.delete_many({"user_id": ...}), when it does not raise
delete_chat_history(store, user_id) ==
    SelectSeq(store, LAMBDA d : d.user_id # user_id)

\* the documents of a user, in insertion order
Find(store, user_id) == SelectSeq(store, LAMBDA d : d.user_id = user_id)

Projection(d) == [sender |-> d.sender, message |-> d.message, timestamp |-> d.timestamp]

\* The arrangements of the documents docs[i], i in S, by ascending timestamp.
\* sort("timestamp", 1) has no second key: the store may return documents of
\* equal timestamp in any order, so every such arrangement is an outcome.
RECURSIVE SortedOrders(_, _)
SortedOrders(docs, S) ==
    IF S = {} THEN {<<>>}
    ELSE LET first == {i \in S : \A j \in S : docs[i].timestamp <= docs[j].timestamp}
         IN  UNION {{<<Projection(docs[i])>> \o rest :
                        rest \in SortedOrders(docs, S \ {i})} : i \in first}

\* faulty variant: no sort, the documents as the collection scan finds them
get_chat_history_unsorted(store, user_id) ==
    LET docs == Find(store, user_id)
    IN  {[i \in 1..Len(docs) |-> Projection(docs[i])]}

\* faulty variant: the find has no filter on user_id
get_chat_history_all_users(store, user_id) ==
    SortedOrders(store, 1..Len(store))

\* list(db.chats.find(...).sort("timestamp", 1)), when it does not raise:
\* the set of lists it may return
get_chat_history(store, user_id) ==
    LET docs == Find(store, user_id)
    IN  SortedOrders(docs, 1..Len(docs))

-----------------------------------------------------------------------------
(* Inputs and outcomes the model draws from *)

Texts == {<<>>, <<"Hello">>}

\* a dict of te.get_emotion, in the order text2emotion fills it
TeScores(happy, angry, surprise, sad, fear) ==
    << <<"Happy", happy>>, <<"Angry", angry>>, <<"Surprise", surprise>>,
       <<"Sad", sad>>, <<"Fear", fear>> >>

ScorerOutcomes ==
    {ScorerRaised, ScorerReturned(TeScores(0, 0, 0, 1, 1))}

ApiOutcomes ==
    {ApiRaised, ApiReturned(<<"WS", "I", "Love", "you", "love", "WS">>)}

-----------------------------------------------------------------------------
(* chat_endpoint, step by step.  A request is the record of the handler's   *)
(* locals and its position pc.  Beside the locals it records what the       *)
(* request did: the scorer's outcome te, how the completion went, the        *)
(* messages handed to the API, the stages that failed (faults) and the       *)
(* documents it inserted (saved).                                            *)

NoResponse == [status |-> 0, success |-> FALSE, reply |-> <<>>, detected_emotion |-> ""]

ErrorResponse(status) ==
    [status |-> status, success |-> FALSE, reply |-> <<>>, detected_emotion |-> ""]

ChatResponse(reply, emotion) ==
    [status |-> 200, success |-> TRUE, reply |-> reply, detected_emotion |-> emotion]

IdleRequest ==
    [pc |-> "idle", email |-> "", text |-> <<>>, user_id |-> 0,
     current_timestamp |-> 0, history |-> <<>>, te |-> ScorerReturned(<<>>),
     emotion |-> "", completion |-> "none", api_calls |-> 0, messages |-> <<>>,
     reply |-> <<>>,
     enhanced_reply |-> <<>>, ai_timestamp |-> 0, faults |-> {}, saved |-> <<>>,
     alone |-> TRUE, response |-> NoResponse]

\* the handler returns: its history and messages are gone, what it did stays
\* on record
Done(rq, response) ==
    [rq EXCEPT !.pc = "done", !.response = response, !.history = <<>>,
               !.messages = <<>>, !.alone = TRUE]

\* lines 633-646; lookup_raised: db.users.find_one raised, which nothing
\* catches, so the framework answers 500
chat_begin(rq, database, accounts, email, text, lookup_raised, t) ==
    LET got == [rq EXCEPT !.email = email, !.text = text]
    IN  IF database = "None" THEN Done(got, ErrorResponse(503))
        ELSE IF email = "" \/ text = <<>> THEN Done(got, ErrorResponse(400))
        ELSE IF lookup_raised
            THEN Done([got EXCEPT !.faults = @ \cup {"lookup"}], ErrorResponse(500))
        ELSE IF get_user_by_email(accounts, email) = 0
            THEN Done(got, ErrorResponse(404))
        ELSE [got EXCEPT !.pc = "save_user",
                         !.user_id = get_user_by_email(accounts, email),
                         !.current_timestamp = t]

\* faulty variant: the load is not guarded, its exception reaches the framework
load_history_unguarded(rq, raised, history_docs) ==
    IF raised THEN Done(rq, ErrorResponse(500))
    ELSE [rq EXCEPT !.pc = "detect",
                    !.history = [i \in 1..Len(history_docs) |->
                                    [sender |-> history_docs[i].sender,
                                     message |-> history_docs[i].message]]]

\* faulty variant: a failed load leaves the request with the history it would
\* have read
load_history_stale(rq, raised, history_docs) ==
    [rq EXCEPT !.pc = "detect",
               !.faults = IF raised THEN @ \cup {"load"} ELSE @,
               !.history = [i \in 1..Len(history_docs) |->
                               [sender |-> history_docs[i].sender,
                                message |-> history_docs[i].message]]]

\* lines 657-663
load_history(rq, raised, history_docs) ==
    IF raised THEN [rq EXCEPT !.pc = "detect", !.history = <<>>,
                              !.faults = @ \cup {"load"}]
    ELSE [rq EXCEPT !.pc = "detect",
                    !.history = [i \in 1..Len(history_docs) |->
                                    [sender |-> history_docs[i].sender,
                                     message |-> history_docs[i].message]]]

\* line 665
detect(rq, outcome) ==
    [rq EXCEPT !.te = outcome,
               !.emotion = detect_emotion_tone(outcome),
               !.faults = IF outcome.raised THEN @ \cup {"scorer"} ELSE @]

\* line 668
complete(rq, client, outcome) ==
    LET got == chat_with_model(rq.text, rq.history, rq.emotion, client, outcome)
    IN  [rq EXCEPT !.reply = got.reply,
                   !.messages = got.messages, !.completion = got.completion,
                   !.api_calls = @ + got.calls,
                   !.faults = IF got.completion = "raised"
                                  THEN @ \cup {"completion"} ELSE @]

\* lines 669-670
postprocess(rq, t) ==
    [rq EXCEPT !.pc = "save_reply",
               !.enhanced_reply = add_emojis_to_response(rq.reply),
               !.ai_timestamp = t]

\* faulty variant: the text stored is the text before the emoji pass
reply_document_raw(rq) ==
    Document(rq.user_id, "luvisa", rq.reply, rq.ai_timestamp)

\* line 675: the document of the reply turn
reply_document(rq) ==
    Document(rq.user_id, "luvisa", rq.enhanced_reply, rq.ai_timestamp)

\* line 651: the document of the user turn
user_document(rq) ==
    Document(rq.user_id, "user", rq.text, rq.current_timestamp)

\* line 680
respond(rq) == Done(rq, ChatResponse(rq.enhanced_reply, rq.emotion))

-----------------------------------------------------------------------------
(* The state machine *)

\* the handler threads: two chat requests may overlap
Requests == {"first", "second"}

RECURSIVE SumFaults(_)
SumFaults(S) ==
    IF S = {} THEN 0
    ELSE LET r == CHOOSE x \in S : TRUE
         IN  Cardinality(req[r].faults) + SumFaults(S \ {r})

\* a stage may fail while the run has failures left
MayFail == SumFaults(Requests) < MaxFaults

FailureOutcomes == IF MayFail THEN BOOLEAN ELSE {FALSE}

\* the transcript of an earlier conversation of user 1: n turns, alternately
\* of the user and of the assistant, one timestamp each, all before time 0
PriorTurn(i, n) ==
    IF i % 2 = 1
        THEN Document(1, "user", IF i % 4 = 1 THEN <<"Hello">> ELSE <<"I", "am", "sad">>,
                      i - n - 1)
    ELSE Document(1, "luvisa", FallbackText, i - n - 1)

PriorChats(n) == [i \in 1..n |-> PriorTurn(i, n)]

\* the probe of a function on its own: the input drawn, and once the
\* function was applied (done) what it returned
NoProbe ==
    [fn |-> "none", done |-> FALSE, outcome |-> ScorerReturned(<<>>), label |-> "",
     response |-> NoResponse, history |-> <<>>, window |-> <<>>,
     text |-> <<>>, marked |-> <<>>, output |-> <<>>]

Init ==
    /\ db \in {"None", "connected"}
    /\ groq \in {"None", "client"}
    /\ users = [email \in {"ann"} |-> 1]
    /\ chats = PriorChats(MaxPrior)
    /\ now = 0
    /\ req = [r \in Requests |-> IdleRequest]
    /\ probe = NoProbe

\* the wall clock advances
Tick ==
    /\ now < MaxTime
    /\ now' = now + 1
    /\ UNCHANGED <<db, groq, users, chats, req, probe>>

\* the request is past its checks and has not read the history yet
BeforeLoad(rq) == rq.pc \in {"save_user", "load"}

\* the request is past its checks and has not returned
InFlight(rq) == rq.pc \notin {"idle", "done"}

\* A request for user_id starts or acts: the requests of that user that have
\* not read the history yet are no longer alone.  The field alone only keeps
\* a record of the interleaving; no handler reads it.
Overlap(rqs, user_id) ==
    [o \in DOMAIN rqs |->
        IF BeforeLoad(rqs[o]) /\ rqs[o].user_id = user_id
            THEN [rqs[o] EXCEPT !.alone = FALSE] ELSE rqs[o]]

\* lines 633-646; the handler threads are interchangeable, and the one named
\* second is the one that starts second
ChatBegin(r) ==
    /\ req[r].pc = "idle"
    /\ r = "second" => req["first"].pc # "idle"
    /\ \E email \in Emails, text \in Texts, lookup_raised \in FailureOutcomes :
          LET begun == chat_begin(req[r], db, users, email, text, lookup_raised, now)
          IN  IF begun.pc = "done" THEN req' = [req EXCEPT ![r] = begun]
              ELSE req' = [Overlap(req, begun.user_id) EXCEPT ![r] =
                              [begun EXCEPT !.alone =
                                  \A o \in Requests \ {r} :
                                      ~(InFlight(req[o])
                                        /\ req[o].user_id = begun.user_id)]]
    /\ UNCHANGED <<db, groq, users, chats, now, probe>>

\* lines 648-653: the insert succeeds or raises inside add_message_to_history
SaveUserMessage(r) ==
    /\ req[r].pc = "save_user"
    /\ LET d == user_document(req[r])
       IN  \/ /\ chats' = add_message_to_history(chats, d.user_id, d.sender,
                                                  d.message, d.timestamp)
              /\ req' = [req EXCEPT ![r].pc = "load", ![r].saved = Append(@, d)]
           \/ /\ MayFail
              /\ chats' = chats
              /\ req' = [req EXCEPT ![r].pc = "load",
                                    ![r].faults = @ \cup {"append_user"}]
    /\ UNCHANGED <<db, groq, users, now, probe>>

\* lines 656-663: the sleep of 1.2 to 2.2 s ends after the clock has advanced,
\* then the history is read
LoadHistory(r) ==
    /\ req[r].pc = "load"
    /\ now > req[r].current_timestamp
    /\ \E raised \in FailureOutcomes :
          \E history_docs \in get_chat_history(chats, req[r].user_id) :
             req' = [req EXCEPT ![r] = load_history(@, raised, history_docs)]
    /\ UNCHANGED <<db, groq, users, chats, now, probe>>

\* lines 665-670: the steps between the read and the second write touch
\* nothing but the request's locals and the clock
Generate(r) ==
    /\ req[r].pc = "detect"
    /\ \E scored \in ScorerOutcomes :
          \E answered \in IF groq = "None" THEN {ApiRaised} ELSE ApiOutcomes :
             LET completed == complete(detect(req[r], scored), groq, answered)
             IN  /\ SumFaults(Requests \ {r}) + Cardinality(completed.faults)
                        <= MaxFaults
                 /\ req' = [req EXCEPT ![r] = postprocess(completed, now)]
    /\ UNCHANGED <<db, groq, users, chats, now, probe>>

\* lines 672-680
SaveReply(r) ==
    /\ req[r].pc = "save_reply"
    /\ LET d == reply_document(req[r])
       IN  \/ /\ chats' = add_message_to_history(chats, d.user_id, d.sender,
                                                  d.message, d.timestamp)
              /\ req' = [req EXCEPT ![r] = respond([@ EXCEPT !.saved = Append(@, d)])]
           \/ /\ MayFail
              /\ chats' = chats
              /\ req' = [req EXCEPT ![r] =
                            respond([@ EXCEPT !.faults = @ \cup {"append_reply"}])]
    /\ UNCHANGED <<db, groq, users, now, probe>>

\* forget_memory_route, lines 555-573: the status of the response
forget_memory_status(database, accounts, email, lookup_raised) ==
    IF database = "None" THEN 503
    ELSE IF email = "" THEN 400
    ELSE IF lookup_raised THEN 500
    ELSE IF get_user_by_email(accounts, email) = 0 THEN 404
    ELSE 200

\* The handler deletes the user's turns and answers 200.  When it answers 503,
\* 400, 500 or 404, or when delete_many raises, which delete_chat_history
\* swallows (lines 187-189), it changes nothing: a stuttering step.
ForgetMemory ==
    /\ \E email \in Emails :
          /\ forget_memory_status(db, users, email, FALSE) = 200
          /\ chats' = delete_chat_history(chats, get_user_by_email(users, email))
          /\ req' = Overlap(req, get_user_by_email(users, email))
    /\ UNCHANGED <<db, groq, users, now, probe>>

Next ==
    \/ Tick
    \/ \E r \in Requests : ChatBegin(r)
    \/ \E r \in Requests : SaveUserMessage(r)
    \/ \E r \in Requests : LoadHistory(r)
    \/ \E r \in Requests : Generate(r)
    \/ \E r \in Requests : SaveReply(r)
    \/ ForgetMemory

Spec == Init /\ [][Next]_vars

\* Two accounts, each with stored turns of its own; the store and the
\* completion client are there.  The clock has one tick left: it ends the
\* sleep of the requests that started before it.
TwoUsers == [email \in {"ann", "bob"} |-> IF email = "ann" THEN 1 ELSE 2]

TwoUsersChats ==
    <<Document(1, "user", <<"Hello">>, -2), Document(2, "user", <<"Hello">>, -2),
      Document(2, "luvisa", FallbackText, -1)>>

InitUsers ==
    /\ db = "connected"
    /\ groq = "client"
    /\ users = TwoUsers
    /\ chats = TwoUsersChats
    /\ now = MaxTime - 1
    /\ req = [r \in Requests |-> IdleRequest]
    /\ probe = NoProbe

SpecUsers == InitUsers /\ [][Next]_vars

-----------------------------------------------------------------------------
(* The classifier and the window builder on their own, over every input    *)
(* within the bounds                                                        *)

\* the order in which text2emotion fills its dict
TeOrder == <<"Happy", "Angry", "Surprise", "Sad", "Fear">>

Reverse(s) == [i \in 1..Len(s) |-> s[Len(s) + 1 - i]]

\* the labels of S in that order, and in the reverse order
LabelOrders(S) ==
    LET kept == SelectSeq(TeOrder, LAMBDA l : l \in S)
    IN  {kept, Reverse(kept)}

\* the dicts over the affect labels: any subset of them as keys, in either
\* order, scores 0..MaxScore
ScoreMaps ==
    UNION {{[i \in 1..Len(labels) |-> <<labels[i], scores[i]>>] :
               scores \in [1..Len(labels) -> 0..MaxScore]} :
           labels \in UNION {LabelOrders(S) : S \in SUBSET AffectLabels}}

AllScorerOutcomes == {ScorerRaised} \cup {ScorerReturned(items) : items \in ScoreMaps}

\* the turns of a history: of the user, of the assistant, with no sender,
\* with no message
HistoryItems ==
    {[sender |-> "user", message |-> <<"Hello">>],
     [sender |-> "luvisa", message |-> <<"bye">>],
     [message |-> <<"bye">>],
     [sender |-> "user"]}

RECURSIVE HistoriesOfLen(_)
HistoriesOfLen(n) ==
    IF n = 0 THEN {<<>>}
    ELSE {Append(h, item) : h \in HistoriesOfLen(n - 1), item \in HistoryItems}

Histories == UNION {HistoriesOfLen(n) : n \in 0..MaxHistLen}

\* the tokens of a reply text: keywords in lower and upper case, a word that
\* only starts with a keyword, the two words of a keyword phrase, a keyword
\* that is also an emoji name, the colon of :name:, and a glyph
ReplyTokens == {"love", "LOVE", "lovely", "miss", "you", "star", ":", "<red_heart>"}

RECURSIVE ReplyTextsOfLen(_)
ReplyTextsOfLen(n) ==
    IF n = 0 THEN {<<>>}
    ELSE {Append(t, w) : t \in ReplyTextsOfLen(n - 1), w \in ReplyTokens}

ReplyTexts == UNION {ReplyTextsOfLen(n) : n \in 0..MaxTextLen}

InitPure ==
    /\ db = "connected"
    /\ groq = "client"
    /\ users = [email \in {"ann"} |-> 1]
    /\ chats = <<>>
    /\ now = 0
    /\ req = [r \in Requests |-> IdleRequest]
    /\ \/ \E outcome \in AllScorerOutcomes :
             probe = [NoProbe EXCEPT !.fn = "detect_emotion_tone", !.outcome = outcome]
       \/ \E history \in Histories :
             probe = [NoProbe EXCEPT !.fn = "ai_history", !.history = history]
       \/ \E text \in ReplyTexts :
             probe = [NoProbe EXCEPT !.fn = "add_emojis_to_response", !.text = text]

\* the request of user 1 that has read its history and is about to classify
ProbeRequest ==
    [IdleRequest EXCEPT !.pc = "detect", !.email = "ann", !.text = <<"Hello">>,
                        !.user_id = 1]

\* lines 665-680 on the drawn outcome of the scorer: the label, and the
\* response the request ends with
Classify ==
    /\ probe.fn = "detect_emotion_tone"
    /\ ~probe.done
    /\ probe' = [probe EXCEPT
                    !.done = TRUE,
                    !.label = detect_emotion_tone(probe.outcome),
                    !.response =
                        respond(postprocess(complete(detect(ProbeRequest, probe.outcome),
                                                     groq, ApiRaised), now)).response]
    /\ UNCHANGED <<db, groq, users, chats, now, req>>

\* line 620 on the drawn history
BuildWindow ==
    /\ probe.fn = "ai_history"
    /\ ~probe.done
    /\ probe' = [probe EXCEPT !.done = TRUE, !.window = ai_history(probe.history)]
    /\ UNCHANGED <<db, groq, users, chats, now, req>>

\* lines 594-604 on the drawn text: the text after the keyword loop (line
\* 603) and the text returned (line 604)
AddEmojis ==
    /\ probe.fn = "add_emojis_to_response"
    /\ ~probe.done
    /\ probe' = [probe EXCEPT !.done = TRUE,
                              !.marked = EmojiPasses(Str(probe.text), 1),
                              !.output = add_emojis_to_response(probe.text)]
    /\ UNCHANGED <<db, groq, users, chats, now, req>>

NextPure == Classify \/ BuildWindow \/ AddEmojis

SpecPure == InitPure /\ [][NextPure]_vars


-----------------------------------------------------------------------------
(* Properties *)

\* the requests that hold the messages they handed to the completion API
Called(rq) == rq.pc = "save_reply" /\ rq.completion \in {"ok", "raised"}

\* C1: the messages handed to the completion API are one system turn, then at
\* most 5 turns taken from the history the request read, each of role user or
\* assistant, then one user turn with the text of the request; no system turn
\* but the first.
C1_ContextShape ==
    \A r \in Requests :
        Called(req[r]) =>
            LET m == req[r].messages
                n == Len(m)
            IN  /\ n >= 2
                /\ n - 2 <= 5
                /\ n - 2 <= Len(req[r].history)
                /\ m[1].role = "system"
                /\ m[n] = [role |-> "user", content |-> req[r].text]
                /\ \A i \in 2..n : m[i].role # "system"
                /\ \A i \in 2..(n - 1) :
                      /\ m[i].role \in {"user", "assistant"}
                      /\ \E j \in 1..Len(req[r].history) :
                            req[r].history[j].message = m[i].content

\* C1 witness: a request whose history is longer than the window handed over
\* a full context
C1_Witness ==
    \E r \in Requests :
        /\ Called(req[r])
        /\ Len(req[r].history) > 5
        /\ Len(req[r].messages) = 7

FieldsPresent(rq) == rq.email # "" /\ rq.text # <<>>

IsChatResponse(response) ==
    /\ response.status = 200
    /\ response.success
    /\ response.detected_emotion \in EmotionLabels

\* C2 as claimed, for the requests of an account whose lookup did not raise:
\* every request that carries both fields ends with a reply and an emotion
\* label, the history store being unavailable included.
C2_NoErrorResponse ==
    \A r \in Requests :
        (/\ req[r].pc = "done"
         /\ FieldsPresent(req[r])
         /\ "lookup" \notin req[r].faults
         /\ get_user_by_email(users, req[r].email) # 0)
            => IsChatResponse(req[r].response)

\* C2 as amended: a request that carries both fields, finds the store handle
\* set and finds its user ends with a reply and an emotion label whatever
\* fails afterwards; with no store handle it ends with status 503.
C2_AcceptedRequestAnswered ==
    \A r \in Requests :
        req[r].pc = "done" =>
            /\ (/\ db # "None"
                /\ FieldsPresent(req[r])
                /\ "lookup" \notin req[r].faults
                /\ get_user_by_email(users, req[r].email) # 0)
                   => /\ IsChatResponse(req[r].response)
                      /\ req[r].response.reply = req[r].enhanced_reply
            /\ db = "None" => req[r].response.status = 503

\* C2 witness: a request answered although the scorer raised and there is no
\* completion client
C2_Witness ==
    \E r \in Requests :
        /\ req[r].pc = "done"
        /\ "scorer" \in req[r].faults
        /\ req[r].completion = "absent"
        /\ IsChatResponse(req[r].response)

PersistenceFaults == {"append_user", "load", "append_reply"}

\* C3: a request with a failed append or a failed load does not end before it
\* has called chat_with_model, and ends with status 200 and the reply; after a
\* failed load chat_with_model gets the empty history, and the messages, when
\* it builds them, are the system turn and the turn of the request.
C3_PersistenceAbsorbed ==
    \A r \in Requests :
        LET rq == req[r]
        IN  /\ (rq.pc = "done" /\ rq.faults \cap PersistenceFaults # {}) =>
                  /\ rq.completion # "none"
                  /\ rq.response.status = 200
                  /\ rq.response.reply = rq.enhanced_reply
            /\ (rq.pc \in {"detect", "save_reply"} /\ "load" \in rq.faults) =>
                  rq.history = <<>>
            /\ (Called(rq) /\ "load" \in rq.faults) =>
                  /\ Len(rq.messages) = 2
                  /\ rq.messages[1].role = "system"
                  /\ rq.messages[2] = [role |-> "user", content |-> rq.text]

\* C3 witness: the load failed while the user had stored turns, and the
\* completion API was called with two messages
C3_Witness ==
    \E r \in Requests :
        /\ Called(req[r])
        /\ "load" \in req[r].faults
        /\ Len(Find(chats, req[r].user_id)) > 0
        /\ Len(req[r].messages) = 2

\* C4: when there is no completion client, and when the call raised, the text
\* generated is the fallback text; the request ends with status 200, a
\* non-empty reply, and the label the classifier gives for the scorer's
\* outcome on the user text.
C4_FallbackOnCompletionFailure ==
    \A r \in Requests :
        LET rq == req[r]
        IN  (rq.completion \in {"absent", "raised"}) =>
               /\ rq.reply = FallbackText
               /\ rq.pc = "done" =>
                     /\ rq.response.status = 200
                     /\ rq.response.reply # <<>>
                     /\ rq.response.reply = add_emojis_to_response(FallbackText)
                     /\ rq.response.detected_emotion = detect_emotion_tone(rq.te)
                     /\ rq.response.detected_emotion \in EmotionLabels

\* C4 witness: the call raised, the request ended with the fallback text and
\* the label Sad of the scorer's outcome
C4_Witness ==
    \E r \in Requests :
        /\ req[r].pc = "done"
        /\ req[r].completion = "raised"
        /\ req[r].response.reply = FallbackText
        /\ req[r].response.detected_emotion = "Sad"

\* the turns stored for a user, in insertion order
HistoryOf(u) == Find(chats, u)

\* C5 as claimed: the stored history of a user only grows at its end, in
\* every step of the program.
C5_AppendOnly ==
    [][\A u \in UserIds : IsPrefix(HistoryOf(u), HistoryOf(u)')]_vars

\* C5 as amended: a step of a chat request leaves every stored turn in place
\* and unchanged and adds turns at the end only; the one step that removes
\* turns is forget_memory, which removes all the turns of one user and no
\* other.
C5_AppendOnlyButForget ==
    [][\/ \A u \in UserIds : IsPrefix(HistoryOf(u), HistoryOf(u)')
       \/ /\ \A r \in Requests : req'[r].pc = req[r].pc
          /\ \E u \in UserIds :
                /\ HistoryOf(u)' = <<>>
                /\ \A v \in UserIds \ {u} : HistoryOf(v)' = HistoryOf(v)]_vars

\* C5 witness: a request has added its two turns behind the turns stored
\* before it
C5_Witness ==
    \E r \in Requests :
        /\ req[r].pc = "done"
        /\ Len(req[r].saved) = 2
        /\ Len(HistoryOf(1)) = MaxPrior + 2
        /\ LastN(HistoryOf(1), 2) = req[r].saved

Classified == probe.fn = "detect_emotion_tone" /\ probe.done

\* C6: for every outcome of the scorer, a raise included, the classifier
\* returns one of the six labels, Neutral after a raise, and the response of
\* the request carries that label.
C6_LabelInSet ==
    Classified =>
        /\ probe.label \in {"Happy", "Sad", "Angry", "Fear", "Surprise", "Neutral"}
        /\ probe.outcome.raised => probe.label = "Neutral"
        /\ probe.response.status = 200
        /\ probe.response.detected_emotion = probe.label

\* C6 witness: the scorer raised and the label is Neutral
C6_Witness ==
    /\ Classified
    /\ probe.outcome.raised
    /\ probe.response.detected_emotion = "Neutral"

\* C7: for every dict the scorer returns, the label is Neutral exactly when
\* no score is positive; otherwise it is a key of the greatest score, the
\* first such key in the dict's order.
C7_FirstMaximum ==
    (Classified /\ ~probe.outcome.raised) =>
        LET items == probe.outcome.scores
            positive == {i \in 1..Len(items) : items[i][2] > 0}
        IN  /\ probe.label = "Neutral" <=> positive = {}
            /\ positive # {} =>
                  \E i \in positive :
                      /\ items[i][1] = probe.label
                      /\ \A j \in 1..Len(items) : items[j][2] <= items[i][2]
                      /\ \A j \in 1..(i - 1) : items[j][2] < items[i][2]

\* C7 witness: the greatest score is shared by the second and a later key and
\* the label is the second key
C7_Witness ==
    /\ Classified
    /\ ~probe.outcome.raised
    /\ Len(probe.outcome.scores) >= 3
    /\ probe.outcome.scores[1][2] = 1
    /\ probe.outcome.scores[2][2] = 2
    /\ probe.outcome.scores[3][2] = 2
    /\ probe.label = probe.outcome.scores[2][1]

WindowBuilt == probe.fn = "ai_history" /\ probe.done

\* C8: the window of a history h has min(len(h), 5) entries; entry i is made
\* from the turn of h that is as far from the end of h as entry i is from the
\* end of the window; its role is user for the sender 'user' and assistant
\* for any other or no sender; its content is the message, empty when the
\* turn has none.
C8_WindowIsTail ==
    WindowBuilt =>
        LET h == probe.history
            w == probe.window
            k == IF Len(h) < 5 THEN Len(h) ELSE 5
        IN  /\ Len(w) = k
            /\ Len(w) <= 5
            /\ \A i \in 1..k :
                  LET turn == h[Len(h) - k + i]
                  IN  /\ ("sender" \in DOMAIN turn /\ turn.sender = "user")
                         => w[i].role = "user"
                      /\ ~("sender" \in DOMAIN turn /\ turn.sender = "user")
                         => w[i].role = "assistant"
                      /\ "message" \in DOMAIN turn => w[i].content = turn.message
                      /\ "message" \notin DOMAIN turn => w[i].content = <<>>

\* C8 witness: a history longer than the window whose first turn differs
\* from its last turns and which holds a turn without message
C8_Witness ==
    /\ WindowBuilt
    /\ Len(probe.history) = 6
    /\ Len(probe.window) = 5
    /\ probe.history[1] = [sender |-> "user", message |-> <<"Hello">>]
    /\ probe.history[2] = [sender |-> "luvisa", message |-> <<"bye">>]
    /\ probe.history[6] = [sender |-> "user"]
    /\ probe.window[1] = [role |-> "assistant", content |-> <<"bye">>]
    /\ probe.window[5] = [role |-> "user", content |-> <<>>]

Ascending(h) == \A i, j \in 1..Len(h) : i < j => h[i].timestamp <= h[j].timestamp

Occurrences(h, d) == Cardinality({i \in 1..Len(h) : h[i] = d})

\* the stored turns of a user as a read shows them, in insertion order
InsertionOrder(u) == [i \in 1..Len(HistoryOf(u)) |-> Projection(HistoryOf(u)[i])]

IsReply(d) == d.sender = "luvisa"

\* C10: a request stores its reply turn only as its last step, after it
\* stored the user turn or failed to; the message stored is the text after
\* the emoji pass, which is the reply of the response; the timestamp stored
\* is not before the timestamp of the user turn.
C10_ReplyStoredLast ==
    \A r \in Requests :
        LET rq == req[r]
            n == Len(rq.saved)
        IN  /\ \A i \in 1..n :
                  IsReply(rq.saved[i]) =>
                      /\ i = n
                      /\ rq.pc = "done"
                      /\ i = 1 => "append_user" \in rq.faults
                      /\ i = 2 => rq.saved[1] = Document(rq.user_id, "user", rq.text,
                                                       rq.current_timestamp)
                      /\ rq.saved[i].message = add_emojis_to_response(rq.reply)
                      /\ rq.saved[i].message = rq.response.reply
                      /\ rq.saved[i].timestamp >= rq.current_timestamp
                      /\ rq.saved[i].user_id = rq.user_id
            /\ n <= 2

\* C10 witness: both turns stored, the reply with its emoji and a later
\* timestamp
C10_Witness ==
    \E r \in Requests :
        /\ req[r].pc = "done"
        /\ Len(req[r].saved) = 2
        /\ IsReply(req[r].saved[2])
        /\ req[r].saved[2].message # req[r].reply
        /\ req[r].saved[2].message = <<"I", "Love", "<red_heart>", "you", "love">>
        /\ req[r].saved[2].timestamp > req[r].saved[1].timestamp

\* C11: a chat request invokes the completion API at most once. A request
\* whose call failed made exactly that one call and holds the fallback text;
\* a request served without a completion client made no call at all.
C11_AtMostOneCompletionCall ==
    \A r \in Requests :
        /\ req[r].api_calls <= 1
        /\ req[r].completion = "raised" =>
               /\ req[r].api_calls = 1
               /\ req[r].reply = FallbackText
        /\ req[r].completion = "ok" => req[r].api_calls = 1
        /\ (groq = "None" \/ req[r].completion \in {"none", "absent"}) =>
               req[r].api_calls = 0

\* a request whose only completion call failed has answered with the fallback
C11_Witness ==
    \E r \in Requests :
        /\ req[r].pc = "done"
        /\ req[r].completion = "raised"
        /\ req[r].api_calls = 1
        /\ req[r].response.status = 200
        /\ req[r].response.reply = add_emojis_to_response(FallbackText)

\* the end of the first whole-word occurrence of keyword in text, ignoring
\* case; 0 when text has none
FirstOccurrenceEnd(text, keyword) ==
    IF \E i \in 1..Len(text) : MatchesAt(text, i, keyword)
        THEN (CHOOSE i \in 1..Len(text) :
                 /\ MatchesAt(text, i, keyword)
                 /\ \A j \in 1..(i - 1) : ~MatchesAt(text, j, keyword))
             + Len(keyword) - 1
    ELSE 0

\* the emojis of the keywords whose first occurrence in text ends at i, the
\* keyword later in the table first
EmojisAfter(text, i) ==
    LET n == Len(inline_emoji_map)
        hits == SelectSeq([j \in 1..n |-> inline_emoji_map[n + 1 - j]],
                          LAMBDA item : FirstOccurrenceEnd(text, item[1]) = i)
    IN  [j \in 1..Len(hits) |-> hits[j][2]]

\* text with, for every keyword, its emoji right after its first occurrence
\* and nowhere else
RECURSIVE FirstOccurrencesMarked(_, _)
FirstOccurrencesMarked(text, i) ==
    IF i > Len(text) THEN <<>>
    ELSE <<text[i]>> \o EmojisAfter(text, i) \o FirstOccurrencesMarked(text, i + 1)

EmojisAdded == probe.fn = "add_emojis_to_response" /\ probe.done

\* C12: one call of the emoji post-processor puts, for every keyword of the
\* table, that keyword's emoji once, right after the first case-insensitive
\* whole-word occurrence of the keyword in the input; later occurrences get
\* none and a keyword that does not occur gets none. The text returned is
\* that text, unless the input holds the colon of a :name: token.
C12_EmojiAfterFirstOccurrence ==
    EmojisAdded =>
        /\ probe.marked = FirstOccurrencesMarked(probe.text, 1)
        /\ \A k \in 1..Len(inline_emoji_map) :
               Len(SubFirst(probe.text, inline_emoji_map[k][1], inline_emoji_map[k][2]))
                   = Len(probe.text)
                     + (IF FirstOccurrenceEnd(probe.text, inline_emoji_map[k][1]) = 0
                            THEN 0 ELSE 1)
        /\ (\A i \in 1..Len(probe.text) : probe.text[i] # ":") =>
               probe.output = FirstOccurrencesMarked(probe.text, 1)

\* a text with a keyword twice, in upper and in lower case, and a keyword
\* phrase: one emoji after the first, none after the second
C12_Witness ==
    /\ EmojisAdded
    /\ probe.text = <<"LOVE", "love", "miss", "you">>
    /\ probe.output = <<"LOVE", "<red_heart>", "love", "miss", "you", "<pleading>">>

\* the turn of the request as the history holds it
OwnTurn(rq) == [sender |-> "user", message |-> rq.text]

\* the request stored its user turn and then read the history
LoadedOwnTurn(rq) ==
    /\ rq.pc \in {"detect", "save_reply"}
    /\ rq.saved # <<>>
    /\ "load" \notin rq.faults

\* the history read ends with the turn of the request
EndsWithOwnTurn(rq) ==
    /\ rq.history # <<>>
    /\ rq.history[Len(rq.history)] = OwnTurn(rq)

\* the messages handed to the API end with the text of the request twice, as
\* the last turn of the window and as the trailing user turn, after at most 4
\* earlier turns
RepeatsUserText(rq) ==
    LET m == rq.messages
        n == Len(m)
    IN  /\ n >= 3
        /\ m[n - 1] = [role |-> "user", content |-> rq.text]
        /\ m[n] = [role |-> "user", content |-> rq.text]
        /\ n - 3 <= 4

\* C13 as claimed: a request that no request for the same user overlapped,
\* whose append of the user turn and whose load succeeded, read a history that
\* ends with its user turn, and handed the user text over twice in a row.
C13_OwnTurnLoadedLast ==
    \A r \in Requests :
        (LoadedOwnTurn(req[r]) /\ req[r].alone) =>
            /\ EndsWithOwnTurn(req[r])
            /\ Called(req[r]) => RepeatsUserText(req[r])

\* the stored turns of the user hold the user turn of the request, and every
\* other one of them has an earlier timestamp
OwnTurnLatest(rq) ==
    LET docs == HistoryOf(rq.user_id)
    IN  /\ rq.saved # <<>>
        /\ \E i \in 1..Len(docs) :
               /\ docs[i] = rq.saved[1]
               /\ \A j \in 1..Len(docs) :
                      j # i => docs[j].timestamp < rq.saved[1].timestamp

\* C13: a load that succeeds while the user turn of the request is stored and
\* every other stored turn of the user has an earlier timestamp returns a
\* history that ends with that user turn; and a request whose history ends
\* with its user turn hands the user text over twice in a row, after at most
\* 4 earlier turns.
C13_LatestTurnLoadedLast ==
    [][\A r \in Requests :
          /\ (/\ req[r].pc = "load"
              /\ req'[r].pc = "detect"
              /\ "load" \notin req'[r].faults
              /\ OwnTurnLatest(req[r])) => EndsWithOwnTurn(req'[r])
          /\ (Called(req'[r]) /\ EndsWithOwnTurn(req'[r])) => RepeatsUserText(req'[r])
      ]_vars

\* the only request so far stored its turn after 5 earlier ones and handed
\* over 4 of them and its text twice
C13_Witness ==
    \E r \in Requests :
        /\ \A o \in Requests \ {r} : req[o].pc = "idle"
        /\ Called(req[r])
        /\ LoadedOwnTurn(req[r])
        /\ req[r].alone
        /\ Len(req[r].history) = MaxPrior + 1
        /\ Len(req[r].messages) = 7
        /\ RepeatsUserText(req[r])

\* the request stored its user turn, and the store no longer holds it: a
\* forget_memory for the user deleted it
UserTurnForgotten(rq) ==
    /\ rq.saved # <<>>
    /\ \A i \in 1..Len(HistoryOf(rq.user_id)) : HistoryOf(rq.user_id)[i] # rq.saved[1]

\* C14: forget_memory does not stop a chat request in flight. When the user
\* turn of a request was deleted before the request stores its reply, the
\* insert of the reply, unless it raises, still appends the reply to what is
\* left of the user's history, and the request answers with the reply.
C14_ReplyAppendedAfterForget ==
    [][\A r \in Requests :
          (/\ req[r].pc = "save_reply"
           /\ req'[r].pc = "done"
           /\ "append_reply" \notin req'[r].faults
           /\ UserTurnForgotten(req[r])) =>
              /\ chats' = Append(chats, reply_document(req[r]))
              /\ req'[r].response = ChatResponse(req[r].enhanced_reply, req[r].emotion)
      ]_vars

\* forget_memory ran between the two writes of the only request there was:
\* the history of the user is the reply alone
C14_Witness ==
    \E r \in Requests :
        /\ \A o \in Requests \ {r} : req[o].pc = "idle"
        /\ req[r].pc = "done"
        /\ req[r].response.status = 200
        /\ Len(req[r].saved) = 2
        /\ req[r].saved[1].sender = "user"
        /\ HistoryOf(req[r].user_id) = <<req[r].saved[2]>>
        /\ HistoryOf(req[r].user_id)[1].sender = "luvisa"

\* the turns of a list as the handler keeps them
Turns(h) == [i \in 1..Len(h) |-> [sender |-> h[i].sender, message |-> h[i].message]]

\* C15: the histories of different users are isolated. A step of a chat
\* request of user A leaves the stored history of every other user as it was,
\* and what it writes is one turn of user_id A; a load of the request returns
\* the stored turns of A, all of them and no other; the turns in the context
\* handed to the completion API come from that load; and a forget_memory
\* removes the turns of one user and leaves those of every other user.
C15_UsersIsolated ==
    [][/\ \A r \in Requests :
             req'[r].pc # req[r].pc =>
                LET A == req'[r].user_id
                IN  /\ \A v \in UserIds \ {A} : HistoryOf(v)' = HistoryOf(v)
                    /\ chats' # chats =>
                           /\ Len(chats') = Len(chats) + 1
                           /\ SubSeq(chats', 1, Len(chats)) = chats
                           /\ chats'[Len(chats')].user_id = A
                    /\ (req[r].pc = "load" /\ "load" \notin req'[r].faults) =>
                           /\ Len(req'[r].history) = Len(HistoryOf(A))
                           /\ \A i \in 1..Len(HistoryOf(A)) :
                                  Occurrences(req'[r].history, Turns(HistoryOf(A))[i])
                                      = Occurrences(Turns(HistoryOf(A)),
                                                    Turns(HistoryOf(A))[i])
                    /\ Called(req'[r]) =>
                           \A i \in 2..(Len(req'[r].messages) - 1) :
                               \E j \in 1..Len(req'[r].history) :
                                   req'[r].history[j].message = req'[r].messages[i].content
       /\ ((\A r \in Requests : req'[r].pc = req[r].pc) /\ chats' # chats) =>
              \E A \in UserIds :
                  /\ HistoryOf(A)' = <<>>
                  /\ \A v \in UserIds \ {A} : HistoryOf(v)' = HistoryOf(v)
      ]_vars

\* requests of the two users overlap: one has stored its turn, the other has
\* handed over a context taken from the turns of its own user, while the
\* store holds turns of both
C15_Witness ==
    \E r, o \in Requests :
        /\ req[r].user_id = 1
        /\ req[o].user_id = 2
        /\ InFlight(req[r])
        /\ req[r].saved # <<>>
        /\ Called(req[o])
        /\ "load" \notin req[o].faults
        /\ Len(req[o].history) = Len(HistoryOf(2))
        /\ Len(req[o].messages) = Len(req[o].history) + 2
        /\ Len(HistoryOf(1)) >= 2

=============================================================================
